---- MODULE Spec2Model ----
(***************************************************************************)
(* Model of polarion/testrun.py: the Testrun mirror of a remote test run,  *)
(* its record index, and the diff-and-push save().                         *)
(*                                                                         *)
(* Python's None is the empty tuple <<>>; a present value x is <<x>>.      *)
(***************************************************************************)
EXTENDS Integers, Sequences, FiniteSets, TLC

\* ------------------------------------------------------------------ bounds
MaxRecords == 3
MaxSyncRecords == 1

Titles == {"A", "B"}
TestCases == {"TC1", "TC2"}
FileNames == {"f1"}
RemoteUri == "u1"
Uris == {RemoteUri, "u2"}
Iterations == (0 - 1)..MaxRecords

NoneV == <<>>
Some(x) == <<x>>
EmptyDict == [x \in {} |-> <<>>]

\* ------------------------------------------------------------------ values
RECURSIVE SeqsUpTo(_, _)
SeqsUpTo(S, n) ==
    IF n = 0 THEN {<<>>}
    ELSE LET shorter == SeqsUpTo(S, n - 1)
         IN shorter \cup {Append(s, x) : s \in {t \in shorter : Len(t) = n - 1}, x \in S}

RecordOptions == {NoneV} \cup {Some(s) : s \in SeqsUpTo(TestCases, MaxRecords)}
AttachmentOptions == {NoneV} \cup {Some(F) : F \in (SUBSET FileNames) \ {{}}}

\* the keys of a TestRun snapshot (zeep object's __values__)
SnapKeys == {"unresolvable", "uri", "title", "attachments", "records"}

Snapshots ==
    [unresolvable : BOOLEAN, uri : Uris, title : Titles,
     attachments : AttachmentOptions, records : RecordOptions]

\* outcomes of a call: a returned value or a raised exception
Return(v) == [kind |-> "return", exc |-> "", val |-> v]
Raise(e) == [kind |-> "raise", exc |-> e, val |-> NoneV]
Call(name, arg, ret) == [name |-> name, arg |-> arg, ret |-> ret]

\* ------------------------------------------------------------------ state
VARIABLES
    remote,                      \* the test run as the TestManagement service holds it
    constructed,                 \* a Testrun object exists
    polarion_test_run,           \* self._polarion_test_run
    original_polarion_test_run,  \* self._original_polarion_test_run
    attrs,                       \* the attributes setattr(self, key, ...) wrote
    raw_records,                 \* self._records
    records,                     \* self.records
    record_dict,                 \* self._record_dict
    op,                          \* the last operation called (see Op)
    calls,                       \* the service calls that operation made, in order
    result                       \* what that operation returned or raised

mirror == <<polarion_test_run, original_polarion_test_run, attrs, raw_records,
            records, record_dict>>
vars == <<remote, constructed, polarion_test_run, original_polarion_test_run, attrs,
          raw_records, records, record_dict, op, calls, result>>

\* ------------------------------------------------------------------ Record
\* Record(polarion, test_run, r, index): the sub-record mirror
Record(r, index) == [testcase_id |-> r, index |-> index]

\* ------------------------------------------------------------------ load
\* line 40: the guard of _buildWorkitemFromPolarion
\* (faulty variant: the unresolvable flag is not looked at)
ResolvableNullOnly(p) == p # NoneV
Resolvable(p) == p # NoneV /\ ~p[1].unresolvable

\* lines 41-46: every key but 'records' becomes an attribute of the same name
\* (faulty variant: attributes already set are not refreshed)
FlattenOnce(s) ==
    IF attrs = EmptyDict THEN [key \in DOMAIN s \ {"records"} |-> s[key]] ELSE attrs
Flatten(s) == [key \in DOMAIN s \ {"records"} |-> s[key]]

\* lines 43-44: 'records' is kept under the private name _records
FlattenRecords(s) == s.records

\* lines 48-54: self.records
BuildRecords(raw) ==
    IF raw # NoneV
    THEN [i \in 1..Len(raw[1]) |-> Record(raw[1][i], i - 1)]
    ELSE <<>>

\* lines 49, 55-58: self._record_dict, filled in sequence order
RECURSIVE FillRecordDict(_, _)
FillRecordDict(recs, n) ==
    IF n = 0 THEN EmptyDict
    ELSE LET d == FillRecordDict(recs, n - 1)
             new_record == recs[n]
         IN IF new_record.testcase_id \notin DOMAIN d
            THEN d @@ (new_record.testcase_id :> <<new_record>>)
            ELSE [d EXCEPT ![new_record.testcase_id] = Append(@, new_record)]

\* (faulty variant: a repeated key replaces its list)
RECURSIVE FillRecordDictOverwrite(_, _)
FillRecordDictOverwrite(recs, n) ==
    IF n = 0 THEN EmptyDict
    ELSE LET d == FillRecordDictOverwrite(recs, n - 1)
             new_record == recs[n]
         IN IF new_record.testcase_id \notin DOMAIN d
            THEN d @@ (new_record.testcase_id :> <<new_record>>)
            ELSE [d EXCEPT ![new_record.testcase_id] = <<new_record>>]

BuildRecordDictOverwrite(recs) == FillRecordDictOverwrite(recs, Len(recs))
BuildRecordDict(recs) == FillRecordDict(recs, Len(recs))

\* lines 36, 67: copy.deepcopy of the snapshot
\* (faulty variant: the copy is taken of the mirror's own attribute values)
DeepcopyLocal(p) ==
    IF p = NoneV THEN p
    ELSE IF attrs = EmptyDict THEN p
    ELSE Some([k \in DOMAIN p[1] |-> IF k \in DOMAIN attrs THEN attrs[k] ELSE p[1][k]])
Deepcopy(p) == p

\* ------------------------------------------------------------------ queries
\* lines 77-79
\* (faulty variant: tests the dict, not the key)
hasTestCaseNonEmpty(d, id) == DOMAIN d # {}
hasTestCase(d, id) == id \in DOMAIN d

\* list[i] of Python: a negative i counts from the end
ListIndex(list, i) ==
    IF 0 <= i /\ i < Len(list) THEN Return(Some(list[i + 1]))
    ELSE IF i < 0 /\ 0 - i <= Len(list) THEN Return(Some(list[Len(list) + i + 1]))
    ELSE Raise("IndexError")

\* lines 90-94
\* (faulty variants: no check of the sign; the iteration counted from 1)
getTestCaseNoGuard(d, id, iteration) ==
    IF hasTestCase(d, id) THEN ListIndex(d[id], iteration) ELSE Return(NoneV)
getTestCaseOffByOne(d, id, iteration) ==
    IF iteration < 0 THEN Raise("IterationMustBePositive")
    ELSE IF hasTestCase(d, id) THEN ListIndex(d[id], iteration + 1)
    ELSE Return(NoneV)
getTestCase(d, id, iteration) ==
    IF iteration < 0 THEN Raise("IterationMustBePositive")
    ELSE IF hasTestCase(d, id) THEN ListIndex(d[id], iteration)
    ELSE Return(NoneV)

\* ------------------------------------------------------------------ save
\* line 207
skip == {"records"}

\* lines 206-216: the staged payload
\* (faulty variant: stages the baseline's value)
DiffStagesOld(snapshot, self_attrs, original) ==
    [key \in {k \in DOMAIN snapshot \ skip : self_attrs[k] # original[k]} |-> original[key]]
\* (faulty variant: once a key differs, every key is staged)
DiffStagesAll(snapshot, self_attrs, original) ==
    IF \E k \in DOMAIN snapshot \ skip : self_attrs[k] # original[k]
    THEN [key \in DOMAIN snapshot \ skip |-> self_attrs[key]]
    ELSE EmptyDict
Diff(snapshot, self_attrs, original) ==
    [key \in {k \in DOMAIN snapshot \ skip : self_attrs[k] # original[k]} |-> self_attrs[key]]

\* line 217
\* (faulty variant: >= for >)
ShouldSendAlways(updated_item) == Cardinality(DOMAIN updated_item) >= 0
ShouldSend(updated_item) == Cardinality(DOMAIN updated_item) > 0

\* line 218
\* (faulty variant: the uri is not attached)
WithUriMissing(updated_item, uri) == updated_item
WithUri(updated_item, uri) ==
    [key \in DOMAIN updated_item \cup {"uri"} |->
        IF key = "uri" THEN uri ELSE updated_item[key]]

\* ------------------------------------------------------------------ service
\* The TestManagement service: a call raises, or returns. A call naming a uri
\* the service does not hold can only raise.
Fault == Raise("ServiceFault")

\* service.getTestRunByUri(uri), lines 27 and 65
getTestRunByUri(r, uri) ==
    IF uri # r.uri THEN {Fault}
    ELSE {Fault, Return(NoneV), Return(Some([r EXCEPT !.unresolvable = TRUE])),
          Return(Some(r))}

\* a call that changes the test run, lines 140, 153, 186, 199, 220
Mutating(r, uri) == IF uri # r.uri THEN {Fault} ELSE {Fault, Return(NoneV)}

\* service.updateTestRun(updated_item): the fields of the payload replace the remote ones
updateTestRun(r, updated_item) ==
    [key \in DOMAIN r |->
        IF key \in DOMAIN updated_item /\ key \in {"title", "attachments"}
        THEN updated_item[key] ELSE r[key]]

\* service.deleteTestRunAttachment(uri, file_name)
deleteTestRunAttachment(r, file_name) ==
    IF r.attachments = NoneV \/ r.attachments[1] \ {file_name} = {}
    THEN [r EXCEPT !.attachments = NoneV]
    ELSE [r EXCEPT !.attachments = Some(r.attachments[1] \ {file_name})]

\* service.addAttachmentToTestRun(uri, file_name, title, bytes)
addAttachmentToTestRun(r, file_name) ==
    IF r.attachments = NoneV
    THEN [r EXCEPT !.attachments = Some({file_name})]
    ELSE [r EXCEPT !.attachments = Some(r.attachments[1] \cup {file_name})]

\* service.addTestRecordToTestRun(uri, new_record)
addTestRecordToTestRun(r, new_record) ==
    IF r.records = NoneV
    THEN [r EXCEPT !.records = Some(<<new_record.testCaseURI>>)]
    ELSE [r EXCEPT !.records = Some(Append(r.records[1], new_record.testCaseURI))]

\* ------------------------------------------------------------------ Testrun
\* the flattened keys whose current value differs from the baseline's
Changed == {k \in DOMAIN attrs : attrs[k] # original_polarion_test_run[1][k]}

\* the handlers of lines 133-200: one service call that changes the test run, then a reload
MutatingOps == {"deleteAttachment", "addAttachment", "updateAttachment", "addTestcase"}

\* a call of a method: its name, its arguments and, for the handlers of
\* MutatingOps, whether the mirror held an unsaved edit when it was called
Op(name, a, b) ==
    [name |-> name, a |-> a, b |-> b,
     dirty |-> (name \in MutatingOps /\ constructed /\ Changed # {})]

\* lines 39-61, on the snapshot p that self._polarion_test_run holds
BuildWorkitemFromPolarion(p) ==
    IF Resolvable(p)
    THEN /\ attrs' = Flatten(p[1])
         /\ raw_records' = FlattenRecords(p[1])
         /\ records' = BuildRecords(FlattenRecords(p[1]))
         /\ record_dict' = BuildRecordDict(BuildRecords(FlattenRecords(p[1])))
    ELSE UNCHANGED <<attrs, raw_records, records, record_dict>>

\* lines 63-67, after the service calls cs, against the remote state r
ReloadFromPolarion(cs, r) ==
    \E f \in getTestRunByUri(r, attrs.uri) :
        /\ calls' = Append(cs, Call("getTestRunByUri", attrs.uri, f))
        /\ IF f.kind = "raise"
           THEN /\ result' = f
                /\ UNCHANGED mirror
           ELSE /\ polarion_test_run' = f.val
                /\ BuildWorkitemFromPolarion(f.val)
                /\ IF Resolvable(f.val)
                   THEN /\ original_polarion_test_run' = Deepcopy(f.val)
                        /\ result' = Return(NoneV)
                   ELSE /\ result' = Raise("NotRetrieved")
                        /\ UNCHANGED original_polarion_test_run

\* lines 36-37 of __init__, on the snapshot p of lines 27 or 32
InitFinish(p) ==
    /\ polarion_test_run' = p
    /\ original_polarion_test_run' = Deepcopy(p)
    /\ IF Resolvable(p)
       THEN /\ BuildWorkitemFromPolarion(p)
            /\ constructed' = TRUE
            /\ result' = Return(NoneV)
       ELSE /\ attrs' = EmptyDict
            /\ raw_records' = NoneV
            /\ records' = <<>>
            /\ record_dict' = EmptyDict
            /\ constructed' = FALSE
            /\ result' = Raise("NotRetrieved")

\* __init__ raised before line 36: the new object has none of the fields
InitFail(e) ==
    /\ polarion_test_run' = NoneV
    /\ original_polarion_test_run' = NoneV
    /\ attrs' = EmptyDict
    /\ raw_records' = NoneV
    /\ records' = <<>>
    /\ record_dict' = EmptyDict
    /\ constructed' = FALSE
    /\ result' = Raise(e)

UriArgs == {NoneV} \cup {Some(u) : u \in Uris}
\* a snapshot handed to the constructor was fetched from the service before
SnapshotArgs ==
    {NoneV} \cup {Some(s) : s \in {t \in Snapshots : t.uri = remote.uri
                                                     /\ t.records = remote.records}}

\* lines 21-37
Construct ==
    /\ ~constructed
    /\ \E uri \in UriArgs, polarion_test_run_arg \in SnapshotArgs :
        /\ op' = Op("init", uri, polarion_test_run_arg)
        /\ IF uri # NoneV
           THEN \E f \in getTestRunByUri(remote, uri[1]) :
                    /\ calls' = <<Call("getTestRunByUri", uri[1], f)>>
                    /\ IF f.kind = "raise"
                       THEN InitFail("CannotFind")
                       ELSE InitFinish(f.val)
           ELSE IF polarion_test_run_arg # NoneV
           THEN /\ calls' = <<>>
                /\ InitFinish(polarion_test_run_arg)
           ELSE /\ calls' = <<>>
                /\ InitFail("ProvideEither")
    /\ UNCHANGED remote

\* the caller assigns to a flattened attribute: uri, title or attachments
AttrValues(key) ==
    CASE key = "uri" -> Uris
      [] key = "title" -> Titles
      [] key = "attachments" -> AttachmentOptions

Editable == {"uri", "title", "attachments"}

SetAttr ==
    /\ constructed
    /\ \E key \in DOMAIN attrs \cap Editable : \E value \in AttrValues(key) :
        /\ value # attrs[key]
        /\ attrs' = [attrs EXCEPT ![key] = value]
    /\ op' = Op("setattr", NoneV, NoneV)
    /\ calls' = <<>>
    /\ result' = Return(NoneV)
    /\ UNCHANGED <<remote, constructed, polarion_test_run, original_polarion_test_run,
                   raw_records, records, record_dict>>

\* lines 202-221
\* (faulty variant: a failed update is followed by the reload all the same)
SaveReloadsAfterFailure ==
    /\ constructed
    /\ op' = Op("save", NoneV, NoneV)
    /\ UNCHANGED constructed
    /\ IF polarion_test_run = NoneV
       THEN /\ result' = Raise("AttributeError")
            /\ calls' = <<>>
            /\ UNCHANGED <<remote, mirror>>
       ELSE LET updated_item == Diff(polarion_test_run[1], attrs,
                                     original_polarion_test_run[1])
                payload == WithUri(updated_item, attrs.uri)
            IN IF ShouldSend(updated_item)
               THEN \E u \in Mutating(remote, attrs.uri) :
                        IF u.kind = "raise"
                        THEN /\ UNCHANGED remote
                             /\ ReloadFromPolarion(<<Call("updateTestRun", payload, u)>>,
                                                   remote)
                        ELSE /\ remote' = updateTestRun(remote, payload)
                             /\ ReloadFromPolarion(<<Call("updateTestRun", payload, u)>>,
                                                   updateTestRun(remote, payload))
               ELSE /\ calls' = <<>>
                    /\ result' = Return(NoneV)
                    /\ UNCHANGED <<remote, mirror>>
Save ==
    /\ constructed
    /\ op' = Op("save", NoneV, NoneV)
    /\ UNCHANGED constructed
    /\ IF polarion_test_run = NoneV
       THEN /\ result' = Raise("AttributeError")
            /\ calls' = <<>>
            /\ UNCHANGED <<remote, mirror>>
       ELSE LET updated_item == Diff(polarion_test_run[1], attrs,
                                     original_polarion_test_run[1])
                payload == WithUri(updated_item, attrs.uri)
            IN IF ShouldSend(updated_item)
               THEN \E u \in Mutating(remote, attrs.uri) :
                        IF u.kind = "raise"
                        THEN /\ calls' = <<Call("updateTestRun", payload, u)>>
                             /\ result' = u
                             /\ UNCHANGED <<remote, mirror>>
                        ELSE /\ remote' = updateTestRun(remote, payload)
                             /\ ReloadFromPolarion(<<Call("updateTestRun", payload, u)>>,
                                                   updateTestRun(remote, payload))
               ELSE /\ calls' = <<>>
                    /\ result' = Return(NoneV)
                    /\ UNCHANGED <<remote, mirror>>

\* lines 69-79
HasTestCase ==
    /\ constructed
    /\ \E id \in TestCases :
        /\ op' = Op("hasTestCase", id, NoneV)
        /\ result' = Return(Some(hasTestCase(record_dict, id)))
    /\ calls' = <<>>
    /\ UNCHANGED <<remote, constructed, mirror>>

\* lines 81-94
GetTestCase ==
    /\ constructed
    /\ \E id \in TestCases, iteration \in Iterations :
        /\ op' = Op("getTestCase", id, iteration)
        /\ result' = getTestCase(record_dict, id, iteration)
    /\ calls' = <<>>
    /\ UNCHANGED <<remote, constructed, mirror>>

\* lines 96-105
HasAttachment ==
    /\ constructed
    /\ op' = Op("hasAttachment", NoneV, NoneV)
    /\ result' = Return(Some(attrs.attachments # NoneV))
    /\ calls' = <<>>
    /\ UNCHANGED <<remote, constructed, mirror>>

\* service.getTestRunAttachment(uri, file_name), line 116
getTestRunAttachment(r, uri, file_name) ==
    IF uri # r.uri THEN {Fault}
    ELSE IF r.attachments # NoneV /\ file_name \in r.attachments[1]
    THEN {Fault, Return(Some([url |-> file_name]))}
    ELSE {Fault, Return(NoneV)}

\* self._polarion.downloadFromSvn(url), line 119
downloadFromSvn(url) == Return(Some([bytes_of |-> url]))

\* lines 107-120
\* (faulty variant: the mirror is reloaded after the download)
GetAttachmentReloads ==
    /\ constructed
    /\ \E file_name \in FileNames :
        /\ op' = Op("getAttachment", file_name, NoneV)
        /\ \E at \in getTestRunAttachment(remote, attrs.uri, file_name) :
            IF at.kind = "raise" \/ at.val = NoneV
            THEN /\ calls' = <<Call("getTestRunAttachment", <<attrs.uri, file_name>>, at)>>
                 /\ result' = IF at.kind = "raise" THEN at ELSE Raise("CouldNotDownload")
                 /\ UNCHANGED mirror
            ELSE ReloadFromPolarion(
                     <<Call("getTestRunAttachment", <<attrs.uri, file_name>>, at)>>, remote)
    /\ UNCHANGED <<remote, constructed>>
GetAttachment ==
    /\ constructed
    /\ \E file_name \in FileNames :
        /\ op' = Op("getAttachment", file_name, NoneV)
        /\ \E at \in getTestRunAttachment(remote, attrs.uri, file_name) :
            /\ calls' = <<Call("getTestRunAttachment", <<attrs.uri, file_name>>, at)>>
            /\ result' = IF at.kind = "raise" THEN at
                         ELSE IF at.val # NoneV THEN downloadFromSvn(at.val[1].url)
                         ELSE Raise("CouldNotDownload")
    /\ UNCHANGED <<remote, constructed, mirror>>

\* os.path.split(file_path)[1], lines 151 and 197: a path is its components
PathTail(file_path) == file_path[Len(file_path)]
FilePaths == {<<"dir", f>> : f \in FileNames}

\* one service call that changes the test run, then the reload: the pattern of
\* lines 139-141, 150-154, 186-187 and 196-200
\* (faulty variant: the reload is left out)
CallNoReload(name, arg, after) ==
    \E m \in Mutating(remote, attrs.uri) :
        /\ calls' = <<Call(name, arg, m)>>
        /\ result' = m
        /\ remote' = IF m.kind = "raise" THEN remote ELSE after
        /\ UNCHANGED mirror
CallThenReload(name, arg, after) ==
    \E m \in Mutating(remote, attrs.uri) :
        IF m.kind = "raise"
        THEN /\ calls' = <<Call(name, arg, m)>>
             /\ result' = m
             /\ UNCHANGED <<remote, mirror>>
        ELSE /\ remote' = after
             /\ ReloadFromPolarion(<<Call(name, arg, m)>>, after)

\* lines 133-141
DeleteAttachment ==
    /\ constructed
    /\ \E file_name \in FileNames :
        /\ op' = Op("deleteAttachment", file_name, NoneV)
        /\ CallThenReload("deleteTestRunAttachment", <<attrs.uri, file_name>>,
                          deleteTestRunAttachment(remote, file_name))
    /\ UNCHANGED constructed

\* lines 143-154
AddAttachment ==
    /\ constructed
    /\ \E file_path \in FilePaths :
        /\ op' = Op("addAttachment", file_path, NoneV)
        /\ CallThenReload("addAttachmentToTestRun", <<attrs.uri, PathTail(file_path)>>,
                          addAttachmentToTestRun(remote, PathTail(file_path)))
    /\ UNCHANGED constructed

\* lines 189-200
UpdateAttachment ==
    /\ constructed
    /\ \E file_path \in FilePaths :
        /\ op' = Op("updateAttachment", file_path, NoneV)
        /\ CallThenReload("updateTestRunAttachment", <<attrs.uri, PathTail(file_path)>>,
                          remote)
    /\ UNCHANGED constructed

\* line 165: dict([(p['name'], p['value']) for p in test_parameters]); a later
\* entry of the same name replaces an earlier one
RECURSIVE ToDict(_, _)
ToDict(test_parameters, n) ==
    IF n = 0 THEN EmptyDict
    ELSE LET d == ToDict(test_parameters, n - 1)
             p == test_parameters[n]
         IN IF p.name \in DOMAIN d THEN [d EXCEPT ![p.name] = p.value]
            ELSE d @@ (p.name :> p.value)

\* self._polarion.ParameterType(name, value)
ParameterType(name, value) == [name |-> name, value |-> value]

\* lines 171-176: the parameter list, or the KeyError of line 174
RECURSIVE ParametersList(_, _, _)
ParametersList(names, d, n) ==
    IF n = 0 THEN Return(<<>>)
    ELSE LET before == ParametersList(names, d, n - 1)
             test_case_parameter_name == names[n]
         IN IF before.kind = "raise" THEN before
            ELSE IF test_case_parameter_name \in DOMAIN d
            THEN IF "test_case_parameter_name" \in DOMAIN d
                 THEN Return(Append(before.val,
                          ParameterType(test_case_parameter_name,
                                        d["test_case_parameter_name"])))
                 ELSE Raise("KeyError")
            ELSE Return(Append(before.val,
                     ParameterType(test_case_parameter_name, "not specified")))

\* lines 179-183: workitem.uri.split('%'); a uri is its parts between '%'
TestRecordType(testCaseUriAndRevision, test_parameters_list) ==
    IF Len(testCaseUriAndRevision) > 1
    THEN [testCaseURI |-> testCaseUriAndRevision[1],
          testCaseRevision |-> Some(testCaseUriAndRevision[2]),
          testParameters |-> test_parameters_list]
    ELSE [testCaseURI |-> testCaseUriAndRevision[1],
          testCaseRevision |-> NoneV,
          testParameters |-> test_parameters_list]

\* service.getTestCaseParameterNames(workitem.uri), line 168
ParameterNames == {<<"p">>}
getTestCaseParameterNames(workitem_uri) ==
    {Fault} \cup {Return(names) : names \in ParameterNames}

Workitems == {<<"TC1">>, <<"TC2", "rev1">>}
ParameterArgs == {<<>>, <<[name |-> "p", value |-> "v"]>>}

\* the service holds at most limit records of the test run
RoomForRecord(r, limit) == IF r.records = NoneV THEN TRUE ELSE Len(r.records[1]) < limit

\* lines 156-187
AddTestcaseUpTo(limit) ==
    /\ constructed
    /\ RoomForRecord(remote, limit)
    /\ \E workitem_uri \in Workitems, test_parameters \in ParameterArgs :
        /\ op' = Op("addTestcase", workitem_uri, test_parameters)
        /\ \E n \in getTestCaseParameterNames(workitem_uri) :
            LET first == Call("getTestCaseParameterNames", workitem_uri, n)
                test_parameters_dict == ToDict(test_parameters, Len(test_parameters))
                plist == IF n.kind = "raise" THEN n
                         ELSE ParametersList(n.val, test_parameters_dict, Len(n.val))
            IN IF plist.kind = "raise"
               THEN /\ calls' = <<first>>
                    /\ result' = plist
                    /\ UNCHANGED <<remote, mirror>>
               ELSE LET new_record == TestRecordType(workitem_uri, plist.val)
                    IN \E m \in Mutating(remote, attrs.uri) :
                        LET second == Call("addTestRecordToTestRun",
                                           <<attrs.uri, new_record>>, m)
                        IN IF m.kind = "raise"
                           THEN /\ calls' = <<first, second>>
                                /\ result' = m
                                /\ UNCHANGED <<remote, mirror>>
                           ELSE /\ remote' = addTestRecordToTestRun(remote, new_record)
                                /\ ReloadFromPolarion(<<first, second>>,
                                       addTestRecordToTestRun(remote, new_record))
    /\ UNCHANGED constructed

\* another writer changes the remote test run
OtherWriter ==
    /\ \E t \in Titles \ {remote.title} : remote' = [remote EXCEPT !.title = t]
    /\ op' = Op("otherWriter", NoneV, NoneV)
    /\ calls' = <<>>
    /\ result' = Return(NoneV)
    /\ UNCHANGED <<constructed, mirror>>

\* the state before any Testrun is constructed
NoTestrun ==
    /\ constructed = FALSE
    /\ polarion_test_run = NoneV
    /\ original_polarion_test_run = NoneV
    /\ attrs = EmptyDict
    /\ raw_records = NoneV
    /\ records = <<>>
    /\ record_dict = EmptyDict
    /\ op = Op("none", NoneV, NoneV)
    /\ calls = <<>>
    /\ result = Return(NoneV)

RemoteStates == {s \in Snapshots : s.uri = RemoteUri /\ ~s.unresolvable}

\* Spec: construction, edits, save and the attachment and record handlers, on test runs of at most MaxSyncRecords records
AddTestcase == AddTestcaseUpTo(MaxSyncRecords)

Init ==
    /\ remote \in {s \in RemoteStates : s.records \in {NoneV, Some(<<>>)}}
    /\ NoTestrun

Next ==
    \/ Construct
    \/ SetAttr
    \/ Save
    \/ HasAttachment
    \/ GetAttachment
    \/ DeleteAttachment
    \/ AddAttachment
    \/ UpdateAttachment
    \/ AddTestcase
    \/ OtherWriter

Spec == Init /\ [][Next]_vars

\* SpecIndex: the record index and the queries, on test runs of up to MaxRecords
\* records whose title and attachments stay as loaded
AddTestcaseIndex == AddTestcaseUpTo(MaxRecords)

InitIndex ==
    /\ remote \in {s \in RemoteStates : s.title = "A"}
    /\ NoTestrun

NextIndex ==
    \/ Construct
    \/ HasTestCase
    \/ GetTestCase
    \/ HasAttachment
    \/ GetAttachment
    \/ AddTestcaseIndex
    \/ UpdateAttachment

SpecIndex == InitIndex /\ [][NextIndex]_vars

\* ------------------------------------------------------------------ properties
ReloadOps == {"save", "deleteAttachment", "addAttachment", "updateAttachment",
              "addTestcase"}
LastCall == calls[Len(calls)]

\* the last operation ended with a successful load or reload
JustLoaded ==
    /\ constructed
    /\ result.kind = "return"
    /\ IF op.name = "init" THEN TRUE
       ELSE /\ op.name \in ReloadOps
            /\ calls # <<>>
            /\ LastCall.name = "getTestRunByUri"

\* this step is a call of save() on a mirror that holds a snapshot
SaveStep == op'.name = "save" /\ polarion_test_run # NoneV

\* the sub-record sequence of a snapshot's 'records' value
SubRecords(raw) == IF raw = NoneV THEN <<>> ELSE raw[1]

\* C1: the payload save() stages holds a flattened key exactly when the mirror's
\* value differs from the baseline's, with the mirror's value, plus the mirror's
\* uri; it stages nothing when no key differs. One changed key gives a payload
\* of that key and uri only.
C1_Staged ==
    [][SaveStep =>
        IF Changed = {}
        THEN calls' = <<>>
        ELSE /\ calls' # <<>>
             /\ calls'[1].name = "updateTestRun"
             /\ DOMAIN calls'[1].arg = Changed \cup {"uri"}
             /\ \A k \in Changed : calls'[1].arg[k] = attrs[k]
             /\ calls'[1].arg["uri"] = attrs.uri
             /\ "records" \notin DOMAIN calls'[1].arg]_vars

C1_Witness ==
    /\ op.name = "save"
    /\ calls # <<>>
    /\ DOMAIN calls[1].arg = {"title", "uri"}

\* C2: right after a successful load or reload every flattened attribute equals
\* the baseline's value of its key, and a save() called in that state sends
\* nothing and returns.
Clean ==
    /\ original_polarion_test_run # NoneV
    /\ DOMAIN attrs = SnapKeys \ {"records"}
    /\ \A k \in DOMAIN attrs : attrs[k] = original_polarion_test_run[1][k]

C2_FreshMirrorClean ==
    [][/\ JustLoaded' => Clean'
       /\ (JustLoaded /\ op'.name = "save") =>
              (calls' = <<>> /\ result' = Return(NoneV))]_vars

C2_Witness ==
    /\ JustLoaded
    /\ op.name = "save"
    /\ "title" \in DOMAIN calls[1].arg
    /\ attrs.title = "B"

\* C3: a save() that stages nothing sends no updateTestRun, makes no fetch and
\* leaves the whole mirror and the remote test run as they were.
C3_EmptySaveNoOp ==
    [][(SaveStep /\ Changed = {}) =>
        /\ calls' = <<>>
        /\ result' = Return(NoneV)
        /\ UNCHANGED <<remote, polarion_test_run, original_polarion_test_run, attrs,
                       raw_records, records, record_dict>>]_vars

C3_Witness ==
    /\ op.name = "save"
    /\ polarion_test_run # NoneV
    /\ calls = <<>>
    /\ result = Return(NoneV)

\* C4: a save() that stages something sends one updateTestRun carrying the
\* mirror's uri and the changed keys, first; if that call returns, one
\* getTestRunByUri follows it and nothing else, and a resolvable snapshot it
\* returns is flattened, indexed and taken as the baseline; if the call raises,
\* nothing follows.
C4_UpdateThenReload ==
    [][(SaveStep /\ Changed # {}) =>
        /\ calls' # <<>>
        /\ calls'[1].name = "updateTestRun"
        /\ "uri" \in DOMAIN calls'[1].arg
        /\ calls'[1].arg["uri"] = attrs.uri
        /\ Changed \subseteq DOMAIN calls'[1].arg
        /\ \A i \in 2..Len(calls') : calls'[i].name # "updateTestRun"
        /\ IF calls'[1].ret.kind = "return"
           THEN /\ Len(calls') = 2
                /\ calls'[2].name = "getTestRunByUri"
                /\ calls'[2].arg = attrs.uri
                /\ (calls'[2].ret.kind = "return" /\ calls'[2].ret.val # NoneV
                      /\ ~calls'[2].ret.val[1].unresolvable) =>
                       /\ polarion_test_run' = calls'[2].ret.val
                       /\ original_polarion_test_run' = calls'[2].ret.val
                       /\ \A k \in DOMAIN attrs' : attrs'[k] = calls'[2].ret.val[1][k]
                       /\ raw_records' = calls'[2].ret.val[1].records
                       /\ Len(records') = Len(SubRecords(raw_records'))
                       /\ result' = Return(NoneV)
           ELSE Len(calls') = 1]_vars

C4_Witness ==
    /\ op.name = "save"
    /\ Len(calls) = 2
    /\ calls[1].name = "updateTestRun"
    /\ calls[2].name = "getTestRunByUri"
    /\ result = Return(NoneV)

\* the positions of the sub-records of key k, and the position of the n-th of them
Occurrences(sub, k) == {q \in 1..Len(sub) : sub[q] = k}
NthOccurrence(sub, k, n) ==
    CHOOSE q \in Occurrences(sub, k) :
        Cardinality({x \in Occurrences(sub, k) : x <= q}) = n

\* records and the record index are those of the sub-record sequence sub
IndexMatches(recs, d, sub) ==
    /\ Len(recs) = Len(sub)
    /\ \A i \in 1..Len(sub) : recs[i].index = i - 1 /\ recs[i].testcase_id = sub[i]
    /\ DOMAIN d = {sub[i] : i \in 1..Len(sub)}
    /\ \A k \in DOMAIN d :
        /\ Len(d[k]) = Cardinality(Occurrences(sub, k))
        /\ \A n \in 1..Len(d[k]) : d[k][n] = recs[NthOccurrence(sub, k, n)]

\* C5: records has the length and order of the loaded snapshot's sub-record
\* sequence, records[i] carries index i, and the record index holds, for every
\* key of the sequence and no other, the records of that key in sequence order.
C5_IndexMatchesRecords ==
    /\ constructed =>
        IndexMatches(records, record_dict,
                     SubRecords(original_polarion_test_run[1].records))
    /\ JustLoaded =>
        IndexMatches(records, record_dict, SubRecords(polarion_test_run[1].records))

C5_Witness ==
    /\ JustLoaded
    /\ op.name = "addTestcase"
    /\ polarion_test_run[1].records = Some(<<"TC1", "TC2", "TC1">>)
    /\ Len(record_dict["TC1"]) = 2
    /\ record_dict["TC1"][2].index = 2

\* C6: getTestCase(k, i), 0 <= i < the number of sub-records of key k, returns
\* the record at the position of the (i+1)-th sub-record of key k; for a key no
\* sub-record has it returns None for every i >= 0.
C6_GetTestCase ==
    (constructed /\ op.name = "getTestCase" /\ op.b >= 0) =>
        LET sub == SubRecords(original_polarion_test_run[1].records)
            count == Cardinality(Occurrences(sub, op.a))
        IN /\ count = 0 => result = Return(NoneV)
           /\ op.b < count =>
                /\ result = Return(Some(records[NthOccurrence(sub, op.a, op.b + 1)]))
                /\ result.val[1].index = NthOccurrence(sub, op.a, op.b + 1) - 1
                /\ result.val[1].testcase_id = op.a

C6_Witness ==
    /\ op = Op("getTestCase", "TC1", 1)
    /\ original_polarion_test_run[1].records = Some(<<"TC1", "TC2", "TC1">>)
    /\ result.kind = "return"
    /\ result.val[1].index = 2

\* C7: hasTestCase(k) is true exactly when a sub-record of the snapshot loaded
\* last has key k, and false for every k when that snapshot has no records value.
C7_HasTestCase ==
    constructed =>
        LET sub == SubRecords(original_polarion_test_run[1].records)
        IN /\ \A k \in TestCases :
                hasTestCase(record_dict, k) <=> (\E i \in 1..Len(sub) : sub[i] = k)
           /\ op.name = "hasTestCase" =>
                result = Return(Some(\E i \in 1..Len(sub) : sub[i] = op.a))
           /\ (JustLoaded /\ polarion_test_run[1].records = NoneV) =>
                \A k \in TestCases : ~hasTestCase(record_dict, k)

C7_Witness ==
    /\ op = Op("hasTestCase", "TC2", NoneV)
    /\ result = Return(Some(TRUE))
    /\ original_polarion_test_run[1].records = Some(<<"TC1", "TC2">>)

\* C8: getTestCase(k, i) with i < 0 raises the iteration error whether or not k
\* is in the record index; i = 0 does not raise it.
C8_NegativeIteration ==
    (constructed /\ op.name = "getTestCase") =>
        /\ op.b < 0 => result = Raise("IterationMustBePositive")
        /\ op.b = 0 => result.kind = "return"

C8_Witness ==
    /\ op.name = "getTestCase"
    /\ op.b < 0
    /\ op.a \in DOMAIN record_dict
    /\ result = Raise("IterationMustBePositive")

\* C9: constructing with neither a uri nor a snapshot, or with both, raises the
\* configuration error, makes no fetch and produces no mirror.
C9_ExactlyOne ==
    (op.name = "init" /\ ((op.a = NoneV) <=> (op.b = NoneV))) =>
        /\ result = Raise("ProvideEither")
        /\ calls = <<>>
        /\ ~constructed

\* C10: a null or unresolvable snapshot handed to _buildWorkitemFromPolarion,
\* whether supplied or fetched at construction or fetched by a reload, raises
\* 'not retrieved' with no flattened attribute written and records, _records
\* and the record index not replaced.
FetchedUnusable(cs) ==
    /\ cs # <<>>
    /\ cs[Len(cs)].name = "getTestRunByUri"
    /\ cs[Len(cs)].ret.kind = "return"
    /\ IF cs[Len(cs)].ret.val = NoneV THEN TRUE
       ELSE cs[Len(cs)].ret.val[1].unresolvable

SuppliedUnusable(o) ==
    /\ o.name = "init"
    /\ o.a = NoneV
    /\ IF o.b = NoneV THEN FALSE ELSE o.b[1].unresolvable

C10_GuardBeforeFlatten ==
    [][/\ (op'.name \in ReloadOps /\ FetchedUnusable(calls')) =>
            /\ result' = Raise("NotRetrieved")
            /\ UNCHANGED <<attrs, raw_records, records, record_dict>>
       /\ (op'.name = "init" /\ (FetchedUnusable(calls') \/ SuppliedUnusable(op'))) =>
            /\ result' = Raise("NotRetrieved")
            /\ ~constructed'
            /\ attrs' = EmptyDict
            /\ raw_records' = NoneV
            /\ records' = <<>>
            /\ record_dict' = EmptyDict]_vars

C10_Witness ==
    /\ constructed
    /\ op.name \in ReloadOps
    /\ FetchedUnusable(calls)
    /\ LastCall.ret.val # NoneV
    /\ result = Raise("NotRetrieved")
    /\ records # <<>>

\* the positions in cs of the calls named in names
CallsNamed(cs, names) == {i \in 1..Len(cs) : cs[i].name \in names}

\* the last operation reached its reload and the reload failed
ReloadFailed(cs, res) ==
    /\ cs # <<>>
    /\ cs[Len(cs)].name = "getTestRunByUri"
    /\ res.kind = "raise"

\* C11: a reload that fails, by the fetch raising or by a null or unresolvable
\* snapshot, leaves every field of the mirror as it was when the operation
\* started, the stored snapshot included.
C11_FailedReloadAtomic ==
    [][(op'.name \in ReloadOps /\ ReloadFailed(calls', result')) =>
            UNCHANGED <<polarion_test_run, original_polarion_test_run, attrs,
                        raw_records, records, record_dict>>]_vars

\* C12: a getTestRunByUri that raises is reported as the mirror's own 'cannot
\* find test run' failure, at construction and in every reload.
C12_FetchFailureWrapped ==
    (calls # <<>> /\ LastCall.name = "getTestRunByUri" /\ LastCall.ret.kind = "raise") =>
        result = Raise("CannotFind")

\* C13: deleteAttachment, addAttachment, updateAttachment and addTestcase make
\* at most one call that changes the test run, their own, with the mirror's uri;
\* when it returns, one getTestRunByUri follows it as the last call and a
\* resolvable snapshot it returns is loaded in full; when it did not return,
\* no fetch is made and no field of the mirror has changed.
MutatingCalls == {"deleteTestRunAttachment", "addAttachmentToTestRun",
                  "updateTestRunAttachment", "addTestRecordToTestRun", "updateTestRun"}

CallOf(name) ==
    CASE name = "deleteAttachment" -> "deleteTestRunAttachment"
      [] name = "addAttachment" -> "addAttachmentToTestRun"
      [] name = "updateAttachment" -> "updateTestRunAttachment"
      [] name = "addTestcase" -> "addTestRecordToTestRun"

C13_OneCallThenReload ==
    [][op'.name \in MutatingOps =>
        LET cs == calls'
            muts == CallsNamed(cs, MutatingCalls)
            fetches == CallsNamed(cs, {"getTestRunByUri"})
        IN /\ Cardinality(muts) <= 1
           /\ \A i \in muts : cs[i].name = CallOf(op'.name) /\ cs[i].arg[1] = attrs.uri
           /\ IF \E i \in muts : cs[i].ret.kind = "return"
              THEN /\ muts = {Len(cs) - 1}
                   /\ fetches = {Len(cs)}
                   /\ cs[Len(cs)].arg = attrs.uri
                   /\ (cs[Len(cs)].ret.kind = "return" /\ Resolvable(cs[Len(cs)].ret.val)) =>
                          /\ polarion_test_run' = cs[Len(cs)].ret.val
                          /\ original_polarion_test_run' = cs[Len(cs)].ret.val
                          /\ Clean'
                          /\ raw_records' = cs[Len(cs)].ret.val[1].records
                          /\ IndexMatches(records', record_dict', SubRecords(raw_records'))
                          /\ result' = Return(NoneV)
              ELSE /\ fetches = {}
                   /\ UNCHANGED <<polarion_test_run, original_polarion_test_run, attrs,
                                  raw_records, records, record_dict>>]_vars

C13_Witness ==
    /\ op.name = "addTestcase"
    /\ Len(calls) = 3
    /\ calls[2].name = "addTestRecordToTestRun"
    /\ calls[2].ret.kind = "return"
    /\ JustLoaded
    /\ records # <<>>

\* C14: assigning to an attribute leaves the baseline as it is; the baseline of
\* a constructed mirror changes only in a step that ends with a fetch, and then
\* to the fetched snapshot; after a save() that reloaded, the baseline is the
\* snapshot the fetch returned.
C14_BaselineOnlyByReload ==
    [][/\ op'.name = "setattr" => UNCHANGED original_polarion_test_run
       /\ (constructed /\ original_polarion_test_run' # original_polarion_test_run) =>
            /\ op'.name \in ReloadOps
            /\ calls' # <<>>
            /\ calls'[Len(calls')].name = "getTestRunByUri"
            /\ original_polarion_test_run' = calls'[Len(calls')].ret.val
       /\ (op'.name = "save" /\ JustLoaded') =>
            original_polarion_test_run' = calls'[Len(calls')].ret.val]_vars

C14_Witness ==
    /\ op.name = "save"
    /\ JustLoaded
    /\ "title" \in DOMAIN calls[1].arg
    /\ original_polarion_test_run = LastCall.ret.val
    /\ original_polarion_test_run[1].title = calls[1].arg["title"]

\* C15 as claimed: the other writer's change of title, which the mirror never
\* touched, is gone from the remote test run after a save() of attachments only.
C15_RemoteChangeLost ==
    [][(/\ SaveStep
        /\ Changed = {"attachments"}
        /\ remote.title # original_polarion_test_run[1].title
        /\ calls'[1].ret.kind = "return") =>
            remote'.title # remote.title]_vars

\* C15 as it holds: the payload of such a save() has attachments and uri only,
\* the remote title after it is still the other writer's value, and a reload
\* that succeeds brings that value into the mirror.
C15_RemoteChangeKept ==
    [][(/\ SaveStep
        /\ Changed = {"attachments"}
        /\ remote.title # original_polarion_test_run[1].title
        /\ calls'[1].ret.kind = "return") =>
            /\ DOMAIN calls'[1].arg = {"attachments", "uri"}
            /\ remote'.title = remote.title
            /\ remote'.attachments = attrs.attachments
            /\ JustLoaded' => attrs'.title = remote.title]_vars

C15_Witness ==
    /\ op.name = "save"
    /\ Len(calls) = 2
    /\ DOMAIN calls[1].arg = {"attachments", "uri"}
    /\ calls[1].ret.kind = "return"
    /\ calls[2].ret.kind = "raise"
    /\ attrs.title = original_polarion_test_run[1].title
    /\ remote.title # attrs.title
    /\ remote.attachments = attrs.attachments

QueryOps == {"hasAttachment", "getAttachment", "hasTestCase", "getTestCase"}

\* C16: hasAttachment, getAttachment, hasTestCase and getTestCase issue no
\* getTestRunByUri fetch and leave attributes, records, record index, stored
\* snapshot and baseline (and the remote test run) as they were, whether the
\* operation returns or raises.
C16_QueriesNeverReload ==
    [][op'.name \in QueryOps =>
        /\ CallsNamed(calls', {"getTestRunByUri"}) = {}
        /\ CallsNamed(calls', MutatingCalls \cup {"updateTestRun"}) = {}
        /\ UNCHANGED <<attrs, raw_records, records, record_dict, polarion_test_run,
                       original_polarion_test_run, remote>>]_vars

C16_Witness ==
    /\ op.name = "getAttachment"
    /\ result.kind = "return"
    /\ Len(calls) = 1
    /\ calls[1].name = "getTestRunAttachment"
    /\ records # <<>>

\* C17: when updateTestRun raises inside save(), the caller gets that failure,
\* it is the only call made (no reload, no retry), and attributes, baseline and
\* the other fields of the mirror are unchanged; a save() called next stages
\* the same payload.
C17_FailedUpdate ==
    [][/\ (SaveStep /\ calls' # <<>> /\ calls'[1].ret.kind = "raise") =>
            /\ result' = calls'[1].ret
            /\ Len(calls') = 1
            /\ UNCHANGED <<remote, mirror>>
       /\ (/\ op.name = "save"
           /\ calls # <<>>
           /\ calls[1].ret.kind = "raise"
           /\ SaveStep) =>
            /\ calls' # <<>>
            /\ calls'[1].name = "updateTestRun"
            /\ calls'[1].arg = calls[1].arg]_vars

C17_Witness ==
    /\ op.name = "save"
    /\ Len(calls) = 1
    /\ calls[1].name = "updateTestRun"
    /\ calls[1].ret.kind = "raise"
    /\ result = calls[1].ret
    /\ Changed # {}
    /\ DOMAIN calls[1].arg = Changed \cup {"uri"}

\* C18: for a key k of the record index and an iteration i that is at least the
\* number of sub-records of key k, getTestCase(k, i) returns None.
C18_OutOfRangeReturnsNull ==
    (/\ constructed
     /\ op.name = "getTestCase"
     /\ op.a \in DOMAIN record_dict
     /\ op.b >= Len(record_dict[op.a])) =>
        result = Return(NoneV)

\* the parameter list C19 describes: one parameter per declared name, in the
\* declared order, with the caller's value of that name or 'not specified'
SuppliedNames(test_parameters) ==
    {test_parameters[j].name : j \in 1..Len(test_parameters)}
DescribedParameters(names, test_parameters) ==
    [i \in 1..Len(names) |->
        ParameterType(names[i],
            IF names[i] \in SuppliedNames(test_parameters)
            THEN ToDict(test_parameters, Len(test_parameters))[names[i]]
            ELSE "not specified")]

\* C19: once the declared parameter names are known, addTestcase sends
\* addTestRecordToTestRun with a record whose parameters are the declared names
\* in order, each with the caller's value of that name or 'not specified', and
\* then reloads if the service accepted the record.
C19_ParametersAsDeclared ==
    (/\ constructed
     /\ op.name = "addTestcase"
     /\ calls # <<>>
     /\ calls[1].ret.kind = "return") =>
        /\ Len(calls) >= 2
        /\ calls[2].name = "addTestRecordToTestRun"
        /\ calls[2].arg[2].testParameters = DescribedParameters(calls[1].ret.val, op.b)
        /\ calls[2].ret.kind = "return" =>
             (Len(calls) = 3 /\ calls[3].name = "getTestRunByUri")

\* C20: when a handler that reloads completes on a mirror with an unsaved edit,
\* every attribute is the fetched snapshot's value and equals the new baseline,
\* no update request was sent, and a save() called next sends nothing.
C20_EditsDiscardedByReload ==
    [][/\ (op'.name \in MutatingOps /\ op'.dirty /\ JustLoaded') =>
            /\ Clean'
            /\ polarion_test_run' = calls'[Len(calls')].ret.val
            /\ attrs' = Flatten(calls'[Len(calls')].ret.val[1])
            /\ CallsNamed(calls', {"updateTestRun"}) = {}
       /\ (op.name \in MutatingOps /\ op.dirty /\ JustLoaded /\ op'.name = "save") =>
            /\ calls' = <<>>
            /\ result' = Return(NoneV)
            /\ UNCHANGED <<remote, mirror>>]_vars

C20_Witness ==
    /\ op.name = "addTestcase"
    /\ op.dirty
    /\ JustLoaded
    /\ Changed = {}
    /\ records # <<>>

====
